---- MODULE Spec2Model ----
(***************************************************************************)
(* A model of the "cube" orchestrator: the task state machine, the three   *)
(* schedulers, the Manager's loops (ProcessTasks/SendWork, UpdateTasks,    *)
(* DoHealthChecks) and the Worker's loops (RunTasks, UpdateTasks).         *)
(***************************************************************************)
EXTENDS Integers, Sequences, FiniteSets, TLC

(* ------------------------------ bounds --------------------------------- *)
\* workers given to manager.New (main system)
NumWorkers == 2
\* distinct task IDs a client may submit
MaxTasks == 2
\* TaskEvents a client submits through Manager.AddTask
MaxEvents == 2
\* nodes handed to the scheduler in the scheduler specification
NumNodes == 3
\* failures the environment injects (container exits, failed probes, failed
\* requests, failed driver calls)
MaxFaults == 1
\* tasks a worker's intake queue holds at once
MaxQueue == 1
\* largest disk size drawn for a node / a task in the scheduler specification
MaxDisk == 1
\* placements in a row under the round-robin scheduler
MaxPlacements == 18

(* ------------------------- program constants --------------------------- *)
\* doHealthChecks: t.RestartCount < 3
RestartCap == 3
\* math.Pow(2, 0.8) = 1.7411..., in thousandths
CpuLoadDivisorMilli == 1741
\* RoundRobin.Score: 0.1 and 1.0, in tenths
RoundRobinLow == 1
RoundRobinHigh == 10

Workers == 1..NumWorkers
TaskIds == 1..MaxTasks
Nodes == 1..NumNodes

(* --------------------------- task state machine ------------------------ *)
State == {"Pending", "Scheduled", "Running", "Completed", "Stopped", "Failed"}

\* the order of the iota constants
StateOrder == <<"Pending", "Scheduled", "Running", "Completed", "Stopped", "Failed">>

\* a table that lets a restart leave Failed
stateTransitionMapRestart(s) ==
    CASE s = "Pending" -> {"Scheduled"}
      [] s = "Scheduled" -> {"Scheduled", "Running", "Failed"}
      [] s = "Running" -> {"Running", "Completed", "Failed"}
      [] s = "Failed" -> {"Scheduled"}
      [] OTHER -> {}

\* a state missing from the Go map yields the nil slice
stateTransitionMap(s) ==
    CASE s = "Pending" -> {"Scheduled"}
      [] s = "Scheduled" -> {"Scheduled", "Running", "Failed"}
      [] s = "Running" -> {"Running", "Completed", "Failed"}
      [] s = "Completed" -> {}
      [] s = "Failed" -> {}
      [] OTHER -> {}

ValidStateTransition(src, dst) == dst \in stateTransitionMap(src)

(* ------------------------------- records ------------------------------- *)
\* ContainerID 0 is the empty string; HostPorts TRUE is a non-empty port map;
\* StartTime and FinishTime TRUE are times that have been set
Task(id, st) ==
    [ID |-> id, State |-> st, RestartCount |-> 0, ContainerID |-> 0,
     HostPorts |-> FALSE, StartTime |-> FALSE, FinishTime |-> FALSE, Disk |-> 0]

\* the absent value of a store (Get fails with NotFound)
NoTask == [ID |-> 0, State |-> "None", RestartCount |-> 0, ContainerID |-> 0,
           HostPorts |-> FALSE, StartTime |-> FALSE, FinishTime |-> FALSE, Disk |-> 0]

\* queue.Queue holds interface{} values: a TaskEvent or a bare Task
TaskEvent(eid, st, t) == [kind |-> "TaskEvent", ID |-> eid, State |-> st, Task |-> t]
BareTask(t) == [kind |-> "Task", ID |-> 0, State |-> "None", Task |-> t]

Range(s) == {s[i] : i \in 1..Len(s)}

(* ------------------------------ schedulers ----------------------------- *)
\* a Go map read: a missing key yields the zero value 0.0
ScoreOf(scores, name) == IF name \in DOMAIN scores THEN scores[name] ELSE 0

\* the loop shared, line for line, by the three Pick methods: best so far
\* after the first k candidates
RECURSIVE PickLoop(_, _, _)
PickLoop(scores, candidates, k) ==
    IF k = 0 THEN [bestNode |-> 0, lowest |-> 0]
    ELSE IF k = 1 THEN [bestNode |-> candidates[1], lowest |-> ScoreOf(scores, candidates[1])]
    ELSE LET prev == PickLoop(scores, candidates, k - 1)
             sc == ScoreOf(scores, candidates[k])
         IN IF sc < prev.lowest
            THEN [bestNode |-> candidates[k], lowest |-> sc]
            ELSE prev

\* node 0 is the nil *node.Node
RoundRobinPick(scores, candidates) == PickLoop(scores, candidates, Len(candidates)).bestNode
GreedyPick(scores, candidates) == PickLoop(scores, candidates, Len(candidates)).bestNode
EpvmPick(scores, candidates) == PickLoop(scores, candidates, Len(candidates)).bestNode

RoundRobinSelectCandidateNodes(disk, nodes, nodeInfo) == nodes

\* a test that wants disk to spare
checkDiskStrict(disk, diskAvailable) == disk < diskAvailable

checkDisk(disk, diskAvailable) == disk <= diskAvailable

\* a filter that lets every node through
selectCandidateNodesAll(disk, nodes, nodeInfo) == nodes

\* nodeInfo[n] = [Disk, DiskAllocated, ...]; nil (the empty sequence) when none fits
selectCandidateNodes(disk, nodes, nodeInfo) ==
    SelectSeq(nodes, LAMBDA n : checkDisk(disk, nodeInfo[n].Disk - nodeInfo[n].DiskAllocated))

\* a cursor that never leaves the first node
RoundRobinCursorStuck(last, nodes) == 0

\* the cursor after Score
RoundRobinCursor(last, nodes) == IF last + 1 < Len(nodes) THEN last + 1 ELSE 0

RoundRobinScore(last, nodes) ==
    LET newWorker == RoundRobinCursor(last, nodes)
    IN [n \in Range(nodes) |->
          IF \E idx \in 1..Len(nodes) : idx - 1 = newWorker /\ nodes[idx] = n
          THEN RoundRobinLow ELSE RoundRobinHigh]

calculateLoad(usageMilli, capacityMilli) == (usageMilli * 1000) \div capacityMilli

\* stats[n] = [ok, usage, cost]: ok is FALSE when node.GetStats fails;
\* usage is calculateCpuUsage's result in thousandths
GreedyScore(nodes, stats) ==
    [n \in {m \in Range(nodes) : stats[m].ok} |->
        calculateLoad(stats[n].usage, CpuLoadDivisorMilli)]

\* cost stands for memCost + cpuCost, a function of the node's statistics
EpvmScore(nodes, stats) ==
    [n \in {m \in Range(nodes) : stats[m].ok} |-> stats[n].cost]

\* Score builds its result with make(): the map may be empty but is never nil
IsNilMap(scores) == FALSE

Score(kind, last, candidates, stats) ==
    CASE kind = "round-robin" -> RoundRobinScore(last, candidates)
      [] kind = "greedy" -> GreedyScore(candidates, stats)
      [] OTHER -> EpvmScore(candidates, stats)

Pick(kind, scores, candidates) ==
    CASE kind = "round-robin" -> RoundRobinPick(scores, candidates)
      [] kind = "greedy" -> GreedyPick(scores, candidates)
      [] OTHER -> EpvmPick(scores, candidates)

SelectCandidateNodes(kind, disk, nodes, nodeInfo) ==
    IF kind = "round-robin"
    THEN RoundRobinSelectCandidateNodes(disk, nodes, nodeInfo)
    ELSE selectCandidateNodes(disk, nodes, nodeInfo)

\* the result: err is "" on success; node 0 is nil; LastWorker is the cursor
\* left behind by Score
SelectWorker(kind, disk, nodes, nodeInfo, last, stats) ==
    LET candidates == SelectCandidateNodes(kind, disk, nodes, nodeInfo)
    IN IF candidates = << >>
       THEN [err |-> "NoCandidates", node |-> 0, LastWorker |-> last]
       ELSE LET scores == Score(kind, last, candidates, stats)
                cursor == IF kind = "round-robin"
                          THEN RoundRobinCursor(last, candidates) ELSE last
            IN IF IsNilMap(scores)
               THEN [err |-> "NoScores", node |-> 0, LastWorker |-> cursor]
               ELSE [err |-> "", node |-> Pick(kind, scores, candidates),
                     LastWorker |-> cursor]

(* -------------------------------- store -------------------------------- *)
\* key -> value with value semantics: Get returns the value a prior Put supplied
StorePut(db, key, value) == [db EXCEPT ![key] = value]
StoreGet(db, key) == db[key]
StoreHas(db, key) == db[key] # NoTask
StoreList(db) == {id \in DOMAIN db : db[id] # NoTask}
EmptyStore == [id \in TaskIds |-> NoTask]

(* ------------------------------ variables ------------------------------ *)
VARIABLES
    Pending,        \* Manager.Pending
    TaskDb,         \* Manager.TaskDb
    EventDb,        \* Manager.EventDb: the keys stored
    WorkerTaskMap,  \* Manager.WorkerTaskMap
    TaskWorkerMap,  \* Manager.TaskWorkerMap (0: no entry)
    LastWorker,     \* RoundRobin.LastWorker
    TaskCount,      \* Node.TaskCount of each worker node
    mgrCrashed,     \* the Manager process died of a panic
    nextEvent,      \* events submitted so far
    upd,            \* Manager.UpdateTasks: position and locals
    lastSend,       \* what the last SendWork call did
    Queue,          \* Worker.Queue of each worker
    Db,             \* Worker.Db of each worker
    wrun,           \* Worker.RunTask: position and locals
    wupd,           \* Worker.updateTasks: position and locals
    container,      \* the container driver's containers on each worker
    wCrashed,       \* the Worker process died of a panic
    faults,         \* failures the environment has injected so far
    tr,             \* state-machine specification: the pair under test
    sch             \* scheduler: the kind in use; inputs and results of its specification

mgrVars == <<Pending, TaskDb, EventDb, WorkerTaskMap, TaskWorkerMap, LastWorker,
             TaskCount, mgrCrashed, nextEvent, upd, lastSend>>
wkrVars == <<Queue, Db, wrun, wupd, container, wCrashed>>
pureVars == <<tr, sch>>
vars == <<mgrVars, wkrVars, faults, pureVars>>

UpdIdle == [pc |-> "idle", taskPersisted |-> NoTask]
RunIdle == [pc |-> "idle", t |-> NoTask]
WUpdIdle == [pc |-> "idle", t |-> NoTask]
NoSend == [kind |-> "none", id |-> 0, w |-> 0]
TrIdle == [pc |-> "off", src |-> "Pending", dst |-> "Pending", verdict |-> "none",
           idx |-> 0, legal |-> 0, illegal |-> 0]
SchIdle == [pc |-> "off", kind |-> "round-robin", disk |-> 0, nodeInfo |-> << >>,
            last |-> 0, stats |-> << >>, candidates |-> << >>, scores |-> << >>,
            picked |-> 0, err |-> ""]

\* manager.New and worker.New
SystemInit ==
    /\ Pending = << >>
    /\ TaskDb = EmptyStore
    /\ EventDb = {}
    /\ WorkerTaskMap = [w \in Workers |-> << >>]
    /\ TaskWorkerMap = [id \in TaskIds |-> 0]
    /\ LastWorker = 0
    /\ TaskCount = [w \in Workers |-> 0]
    /\ mgrCrashed = FALSE
    /\ nextEvent = 0
    /\ upd = UpdIdle
    /\ lastSend = NoSend
    /\ Queue = [w \in Workers |-> << >>]
    /\ Db = [w \in Workers |-> EmptyStore]
    /\ wrun = [w \in Workers |-> RunIdle]
    /\ wupd = [w \in Workers |-> WUpdIdle]
    /\ container = [w \in Workers |-> [id \in TaskIds |-> "none"]]
    /\ wCrashed = [w \in Workers |-> FALSE]
    /\ faults = 0

Init ==
    /\ SystemInit
    /\ tr = TrIdle
    /\ sch = SchIdle

\* the environment may inject one more failure
Fault(failed) ==
    /\ failed => faults < MaxFaults
    /\ faults' = IF failed THEN faults + 1 ELSE faults

(* ------------------------------- Manager ------------------------------- *)
\* the scheduler manager.New built the Manager with: the default branch,
\* round-robin, unless the initial state names another
SchedulerKind == sch.kind
WorkerNodes == [i \in 1..NumWorkers |-> i]
\* node.NewNode: every capacity field is zero
NewNodeInfo == [n \in Workers |-> [Disk |-> 0, DiskAllocated |-> 0]]
NodeStatsUp == [n \in Workers |-> [ok |-> TRUE, usage |-> 0, cost |-> 0]]

DispatchKinds == {"transport", "rejected", "accepted"}

\* what an HTTP request to worker w comes to: a crashed worker's port is closed,
\* a live worker fails to answer 2xx only by a failure of the environment
Dispatch(w, dispatch) ==
    IF wCrashed[w]
    THEN dispatch = "transport" /\ Fault(FALSE)
    ELSE /\ Fault(dispatch # "accepted")
         /\ dispatch = "accepted" => Len(Queue[w]) < MaxQueue

\* worker API, POST /tasks: enqueue the event's task on the intake queue
StartTaskHandler(q, te) == Append(q, te.Task)

\* worker API, DELETE /tasks/{taskID}: enqueue a copy of the stored task with
\* State Completed; an unknown ID is answered 404
StopTaskHandler(q, db, id) ==
    IF StoreHas(db, id) THEN Append(q, [StoreGet(db, id) EXCEPT !.State = "Completed"]) ELSE q

\* worker API, GET /tasks: the worker's Db.List() at the time of the request
GetTasksHandler(db) == db

\* a queue that puts the new element in front
EnqueueFront(pending, te) == <<te>> \o pending

\* m.Pending.Enqueue(te)
Enqueue(pending, te) == Append(pending, te)

\* Manager.AddTask, called by the API with the client's TaskEvent, whose task
\* asks for disk units of disk
AddTaskDisk(eState, id, tState, disk) ==
    /\ ~mgrCrashed
    /\ nextEvent < MaxEvents
    /\ nextEvent' = nextEvent + 1
    /\ Pending' = Enqueue(Pending, TaskEvent(nextEvent + 1, eState,
                                             [Task(id, tState) EXCEPT !.Disk = disk]))
    /\ UNCHANGED <<TaskDb, EventDb, WorkerTaskMap, TaskWorkerMap, LastWorker,
                   TaskCount, mgrCrashed, upd, lastSend, wkrVars, faults, pureVars>>

\* Manager.AddTask with a task that asks for no disk
AddTask(eState, id, tState) == AddTaskDisk(eState, id, tState, 0)

\* Manager.stopTask: the DELETE request changes no Manager state
stopTask(w, id, dispatch) ==
    /\ Dispatch(w, dispatch)
    /\ Queue' = IF dispatch = "accepted"
                THEN [Queue EXCEPT ![w] = StopTaskHandler(Queue[w], Db[w], id)]
                ELSE Queue
    /\ UNCHANGED <<TaskDb, WorkerTaskMap, TaskWorkerMap, LastWorker, TaskCount,
                   mgrCrashed>>

\* a test that asks for the event's state only
StopRequestedAnyState(te, persistedTask) == te.State = "Completed"

\* SendWork, line 235: whether the event is a stop request to be passed on
StopRequested(te, persistedTask) ==
    te.State = "Completed" /\ ValidStateTransition(persistedTask.State, te.State)

\* SendWork, lines 221-245: an event for a task that TaskWorkerMap already holds
SendWorkPlaced(te, dispatch) ==
    LET taskWorker == TaskWorkerMap[te.Task.ID]
        persistedTask == StoreGet(TaskDb, te.Task.ID)
    IN IF StopRequested(te, persistedTask)
       THEN /\ stopTask(taskWorker, te.Task.ID, dispatch)
            /\ Pending' = Tail(Pending)
            /\ lastSend' = [kind |-> "Stop", id |-> te.Task.ID, w |-> taskWorker]
       ELSE /\ dispatch = "accepted"
            /\ Fault(FALSE)
            /\ Pending' = Tail(Pending)
            /\ lastSend' = [kind |-> "InvalidRequest", id |-> te.Task.ID, w |-> taskWorker]
            /\ UNCHANGED <<TaskDb, WorkerTaskMap, TaskWorkerMap, LastWorker,
                           TaskCount, mgrCrashed, Queue>>

\* a placement that records the worker of a task but not the task of the worker
BindWorkerTaskSkipped(workerTaskMap, w, id) == workerTaskMap

\* SendWork, line 256
BindWorkerTask(workerTaskMap, w, id) == [workerTaskMap EXCEPT ![w] = Append(@, id)]

\* SendWork, line 257
BindTaskWorker(taskWorkerMap, w, id) == [taskWorkerMap EXCEPT ![id] = w]

\* a node count that goes up by two
CountPlacementTwice(taskCount, w) == [taskCount EXCEPT ![w] = @ + 2]

\* SendWork, line 293: w.TaskCount++
CountPlacement(taskCount, w) == [taskCount EXCEPT ![w] = @ + 1]

\* SendWork, lines 247-294: the placement of a task TaskWorkerMap does not hold
SendWorkPlace(te, dispatch) ==
    LET t == te.Task
        sel == SelectWorker(SchedulerKind, t.Disk, WorkerNodes, NewNodeInfo, LastWorker, NodeStatsUp)
        w == sel.node
        scheduled == [t EXCEPT !.State = "Scheduled"]
    IN IF sel.err # ""
       THEN /\ dispatch = "accepted"
            /\ Fault(FALSE)
            /\ Pending' = Tail(Pending)
            /\ LastWorker' = sel.LastWorker
            /\ lastSend' = [kind |-> "NoWorker", id |-> t.ID, w |-> 0]
            /\ UNCHANGED <<TaskDb, WorkerTaskMap, TaskWorkerMap, TaskCount,
                           mgrCrashed, Queue>>
       ELSE /\ Dispatch(w, dispatch)
            /\ LastWorker' = sel.LastWorker
            /\ WorkerTaskMap' = BindWorkerTask(WorkerTaskMap, w, t.ID)
            /\ TaskWorkerMap' = BindTaskWorker(TaskWorkerMap, w, t.ID)
            /\ TaskDb' = StorePut(TaskDb, t.ID, scheduled)
            /\ mgrCrashed' = mgrCrashed
            /\ CASE dispatch = "transport" ->
                      \* m.Pending.Enqueue(t): the Task, not the TaskEvent
                      /\ Pending' = Append(Tail(Pending), BareTask(scheduled))
                      /\ lastSend' = [kind |-> "TransportError", id |-> t.ID, w |-> w]
                      /\ UNCHANGED <<TaskCount, Queue>>
                 [] dispatch = "rejected" ->
                      /\ Pending' = Tail(Pending)
                      /\ lastSend' = [kind |-> "ResponseError", id |-> t.ID, w |-> w]
                      /\ UNCHANGED <<TaskCount, Queue>>
                 [] OTHER ->
                      /\ Pending' = Tail(Pending)
                      /\ Queue' = [Queue EXCEPT ![w] = StartTaskHandler(@, te)]
                      /\ TaskCount' = CountPlacement(TaskCount, w)
                      /\ lastSend' = [kind |-> "Created", id |-> t.ID, w |-> w]

\* a lookup that never finds the task
IsPlacedNever(taskWorkerMap, id) == FALSE

\* SendWork, line 221: taskWorker, ok := m.TaskWorkerMap[te.Task.ID]
IsPlaced(taskWorkerMap, id) == taskWorkerMap[id] # 0

\* Manager.SendWork, one call of the ProcessTasks loop; putErr: m.EventDb.Put fails
SendWork(putErr, dispatch) ==
    /\ ~mgrCrashed
    /\ UNCHANGED <<nextEvent, upd, Db, wrun, wupd, container, wCrashed, pureVars>>
    /\ IF Len(Pending) = 0
       THEN /\ ~putErr /\ dispatch = "accepted"
            /\ lastSend' = [kind |-> "NoWork", id |-> 0, w |-> 0]
            /\ UNCHANGED <<Pending, TaskDb, EventDb, WorkerTaskMap, TaskWorkerMap,
                           LastWorker, TaskCount, mgrCrashed, Queue, faults>>
       ELSE LET e == Head(Pending)
            IN IF e.kind # "TaskEvent"
               THEN \* te := e.(task.TaskEvent) panics on a Task
                    /\ ~putErr /\ dispatch = "accepted"
                    /\ Pending' = Tail(Pending)
                    /\ mgrCrashed' = TRUE
                    /\ lastSend' = [kind |-> "Panic", id |-> e.Task.ID, w |-> 0]
                    /\ UNCHANGED <<TaskDb, EventDb, WorkerTaskMap, TaskWorkerMap,
                                   LastWorker, TaskCount, Queue, faults>>
               ELSE IF putErr
                    THEN /\ dispatch = "accepted"
                         /\ Fault(TRUE)
                         /\ Pending' = Tail(Pending)
                         /\ lastSend' = [kind |-> "EventDbError", id |-> e.Task.ID, w |-> 0]
                         /\ UNCHANGED <<TaskDb, EventDb, WorkerTaskMap, TaskWorkerMap,
                                        LastWorker, TaskCount, mgrCrashed, Queue>>
                    ELSE /\ EventDb' = EventDb \cup {e.ID}
                         /\ IF IsPlaced(TaskWorkerMap, e.Task.ID)
                            THEN SendWorkPlaced(e, dispatch)
                            ELSE SendWorkPlace(e, dispatch)

\* a merge that also counts the passes in RestartCount
MergeWorkerTaskCounting(taskPersisted, t) ==
    [taskPersisted EXCEPT !.State = t.State, !.StartTime = t.StartTime,
                          !.FinishTime = t.FinishTime, !.ContainerID = t.ContainerID,
                          !.HostPorts = t.HostPorts, !.RestartCount = @ + 1]

\* the fields UpdateTasks copies from the worker's task, lines 161-168
MergeWorkerTask(taskPersisted, t) ==
    [taskPersisted EXCEPT !.State = t.State, !.StartTime = t.StartTime,
                          !.FinishTime = t.FinishTime, !.ContainerID = t.ContainerID,
                          !.HostPorts = t.HostPorts]

\* Manager.UpdateTasks, lines 147-170: the tasks of one worker's answer, each
\* merged into the record TaskDb holds for its ID
UpdateWorkerTasks(taskDb, tasks) ==
    [id \in DOMAIN taskDb |->
        IF id \in StoreList(tasks) /\ StoreHas(taskDb, id)
        THEN MergeWorkerTask(StoreGet(taskDb, id), tasks[id])
        ELSE taskDb[id]]

\* Manager.UpdateTasks, lines 125-171: one full pass over the first k workers
\* with nothing else running; a worker that does not answer is skipped
RECURSIVE UpdatePass(_, _, _, _)
UpdatePass(taskDb, db, down, k) ==
    IF k = 0 THEN taskDb
    ELSE LET before == UpdatePass(taskDb, db, down, k - 1)
         IN IF down[k] THEN before
            ELSE UpdateWorkerTasks(before, GetTasksHandler(db[k]))

\* Manager.UpdateTasks, lines 147-168, for one task of a worker's answer:
\* m.TaskDb.Get and the field updates (an ID TaskDb does not hold is skipped)
UpdateTasksGet(w, id) ==
    /\ ~mgrCrashed
    /\ ~wCrashed[w]
    /\ upd.pc = "idle"
    /\ id \in StoreList(GetTasksHandler(Db[w]))
    /\ StoreHas(TaskDb, id)
    /\ upd' = [pc |-> "put",
               taskPersisted |-> MergeWorkerTask(StoreGet(TaskDb, id), GetTasksHandler(Db[w])[id])]
    /\ UNCHANGED <<Pending, TaskDb, EventDb, WorkerTaskMap, TaskWorkerMap, LastWorker,
                   TaskCount, mgrCrashed, nextEvent, lastSend, wkrVars, faults, pureVars>>

\* Manager.UpdateTasks, line 169: m.TaskDb.Put
UpdateTasksPut ==
    /\ ~mgrCrashed
    /\ upd.pc = "put"
    /\ TaskDb' = StorePut(TaskDb, upd.taskPersisted.ID, upd.taskPersisted)
    /\ upd' = UpdIdle
    /\ UNCHANGED <<Pending, EventDb, WorkerTaskMap, TaskWorkerMap, LastWorker,
                   TaskCount, mgrCrashed, nextEvent, lastSend, wkrVars, faults, pureVars>>

\* the task restartTask persists and posts
RestartedTask(t) == [t EXCEPT !.State = "Scheduled", !.RestartCount = @ + 1]

\* Manager.restartTask
restartTask(t, dispatch) ==
    LET w == TaskWorkerMap[t.ID]
        nt == RestartedTask(t)
    IN /\ TaskDb' = StorePut(TaskDb, t.ID, nt)
       /\ CASE dispatch = "transport" ->
                 \* m.Pending.Enqueue(t): the *Task, not a TaskEvent
                 /\ Pending' = Append(Pending, BareTask(nt))
                 /\ Queue' = Queue
            [] dispatch = "rejected" -> UNCHANGED <<Pending, Queue>>
            [] OTHER ->
                 /\ Queue' = [Queue EXCEPT ![w] =
                                StartTaskHandler(@, TaskEvent(0, "Running", nt))]
                 /\ Pending' = Pending

\* checkTaskHealth: nil without a probe while HostPorts is empty
checkTaskHealth(t, healthy) == IF t.HostPorts THEN healthy ELSE TRUE

\* health checks that leave a Failed task alone
NeedsRestartRunningOnly(t, healthy) ==
    t.State = "Running" /\ t.RestartCount < RestartCap /\ ~checkTaskHealth(t, healthy)

\* whether doHealthChecks restarts a task, lines 352-361
NeedsRestart(t, healthy) ==
    \/ t.State = "Running" /\ t.RestartCount < RestartCap /\ ~checkTaskHealth(t, healthy)
    \/ t.State = "Failed" /\ t.RestartCount < RestartCap

\* Manager.doHealthChecks, for one task of m.GetTasks() on which it acts; the
\* worker's intake queue takes the restart while it holds fewer than cap tasks
HealthCheckTaskCap(id, healthy, dispatch, cap) ==
    /\ ~mgrCrashed
    /\ StoreHas(TaskDb, id)
    /\ LET t == StoreGet(TaskDb, id)
           w == TaskWorkerMap[id]
       IN /\ NeedsRestart(t, healthy)
          /\ IF wCrashed[w]
             THEN dispatch = "transport" /\ Fault(~healthy)
             ELSE /\ Fault(~healthy \/ dispatch # "accepted")
                  /\ dispatch = "accepted" => Len(Queue[w]) < cap
          /\ restartTask(t, dispatch)
    /\ UNCHANGED <<EventDb, WorkerTaskMap, TaskWorkerMap, LastWorker, TaskCount,
                   mgrCrashed, nextEvent, upd, lastSend, Db, wrun, wupd, container,
                   wCrashed, pureVars>>

\* doHealthChecks against intake queues of MaxQueue tasks
HealthCheckTask(id, healthy, dispatch) == HealthCheckTaskCap(id, healthy, dispatch, MaxQueue)

(* -------------------------------- Worker ------------------------------- *)
\* Worker.RunTask, lines 95-109: Put the dequeued task, then Get it back
RunTaskPersist(db, taskQueued) == StorePut(db, taskQueued.ID, taskQueued)

\* Worker.RunTask, lines 110-129: what to do with the dequeued task;
\* "error" is a DockerResult with Error set and nothing else done
RunTaskDecide(taskPersisted, taskQueued) ==
    IF taskPersisted.State = "Completed" THEN "stop"
    ELSE IF ValidStateTransition(taskPersisted.State, taskQueued.State)
         THEN CASE taskQueued.State = "Scheduled" -> "start"
                [] taskQueued.State = "Completed" -> "stop"
                [] OTHER -> "error"
         ELSE "error"

\* Worker.RunTask up to the call of StartTask or StopTask
RunTask(w) ==
    /\ ~wCrashed[w]
    /\ wrun[w].pc = "idle"
    /\ Len(Queue[w]) > 0
    /\ LET taskQueued == Head(Queue[w])
           db == RunTaskPersist(Db[w], taskQueued)
           taskPersisted == StoreGet(db, taskQueued.ID)
           todo == RunTaskDecide(taskPersisted, taskQueued)
       IN /\ Queue' = [Queue EXCEPT ![w] = Tail(@)]
          /\ Db' = [Db EXCEPT ![w] = db]
          /\ wrun' = [wrun EXCEPT ![w] =
                        CASE todo = "error" -> RunIdle
                          [] todo = "start" -> [pc |-> "start", t |-> taskQueued]
                          [] OTHER -> [pc |-> "stop", t |-> taskPersisted]]
    /\ UNCHANGED <<mgrVars, wupd, container, wCrashed, faults, pureVars>>

\* a start that leaves the state of a task whose container did not run
StartedTaskUnmarked(t, runOk) ==
    IF runOk
    THEN [t EXCEPT !.StartTime = TRUE, !.ContainerID = 1, !.State = "Running"]
    ELSE [t EXCEPT !.StartTime = TRUE]

\* Worker.StartTask, lines 134-145: the task it persists; the driver's Run
\* returns container ID 1
StartedTask(t, runOk) ==
    IF runOk
    THEN [t EXCEPT !.StartTime = TRUE, !.ContainerID = 1, !.State = "Running"]
    ELSE [t EXCEPT !.StartTime = TRUE, !.State = "Failed"]

\* Worker.StartTask: the driver's Run, then Put
StartTask(w, runOk) ==
    /\ ~wCrashed[w]
    /\ wrun[w].pc = "start"
    /\ Fault(~runOk)
    /\ LET t == wrun[w].t
       IN /\ Db' = [Db EXCEPT ![w] = StorePut(@, t.ID, StartedTask(t, runOk))]
          /\ container' = IF runOk THEN [container EXCEPT ![w][t.ID] = "running"]
                          ELSE container
    /\ wrun' = [wrun EXCEPT ![w] = RunIdle]
    /\ UNCHANGED <<mgrVars, Queue, wupd, wCrashed, pureVars>>

\* a stop that marks the task Failed when the driver fails
StoppedTaskFailing(t, stopOk) ==
    IF stopOk THEN [t EXCEPT !.FinishTime = TRUE, !.State = "Completed"]
    ELSE [t EXCEPT !.State = "Failed"]

\* Worker.StopTask, lines 158-159: the task it persists, whatever Stop answered
StoppedTask(t, stopOk) == [t EXCEPT !.FinishTime = TRUE, !.State = "Completed"]

\* Worker.StopTask: the driver's Stop (ContainerStop, then ContainerRemove),
\* then Put; Stop fails on a container that does not exist, or by a failure of
\* the environment, and then removes nothing
StopTask(w, stopOk) ==
    /\ ~wCrashed[w]
    /\ wrun[w].pc = "stop"
    /\ LET t == wrun[w].t
       IN /\ IF container[w][t.ID] = "none"
             THEN ~stopOk /\ Fault(FALSE)
             ELSE Fault(~stopOk)
          /\ Db' = [Db EXCEPT ![w] = StorePut(@, t.ID, StoppedTask(t, stopOk))]
          /\ container' = IF stopOk THEN [container EXCEPT ![w][t.ID] = "none"]
                          ELSE container
    /\ wrun' = [wrun EXCEPT ![w] = RunIdle]
    /\ UNCHANGED <<mgrVars, Queue, wupd, wCrashed, pureVars>>

\* Worker.updateTasks, lines 188-196: a Running task of w.Db.List()
WorkerUpdateList(w, id) ==
    /\ ~wCrashed[w]
    /\ wupd[w].pc = "idle"
    /\ StoreHas(Db[w], id)
    /\ Db[w][id].State = "Running"
    /\ wupd' = [wupd EXCEPT ![w] = [pc |-> "inspect", t |-> Db[w][id]]]
    /\ UNCHANGED <<mgrVars, Queue, Db, wrun, container, wCrashed, faults, pureVars>>

\* Worker.updateTasks, lines 196-217, for the task read from the list;
\* inspectOk is FALSE when Inspect returns an error and no container
WorkerUpdateTask(w, inspectOk) ==
    /\ ~wCrashed[w]
    /\ wupd[w].pc = "inspect"
    /\ LET t == wupd[w].t
           id == t.ID
       IN /\ IF container[w][id] = "none"
             THEN ~inspectOk /\ Fault(FALSE)
             ELSE Fault(~inspectOk)
          /\ IF ~inspectOk
             THEN \* Put(Failed), then resp.Container.State dereferences nil
                  /\ Db' = [Db EXCEPT ![w] = StorePut(@, id, [t EXCEPT !.State = "Failed"])]
                  /\ wCrashed' = [wCrashed EXCEPT ![w] = TRUE]
             ELSE /\ Db' = [Db EXCEPT ![w] = StorePut(@, id,
                              [t EXCEPT !.State = IF container[w][id] = "exited"
                                                  THEN "Failed" ELSE @,
                                        !.HostPorts = (container[w][id] = "running")])]
                  /\ wCrashed' = wCrashed
    /\ wupd' = [wupd EXCEPT ![w] = WUpdIdle]
    /\ UNCHANGED <<mgrVars, Queue, wrun, container, pureVars>>

\* the container of a task ends on its own
ContainerExit(w, id) ==
    /\ container[w][id] = "running"
    /\ Fault(TRUE)
    /\ container' = [container EXCEPT ![w][id] = "exited"]
    /\ UNCHANGED <<mgrVars, Queue, Db, wrun, wupd, wCrashed, pureVars>>

(* ---------------------------- specification ---------------------------- *)
Next ==
    \/ \E eState \in {"Running", "Completed"}, id \in TaskIds,
          tState \in {"Pending", "Scheduled"} : AddTask(eState, id, tState)
    \/ \E putErr \in BOOLEAN, dispatch \in DispatchKinds : SendWork(putErr, dispatch)
    \/ \E w \in Workers, id \in TaskIds : UpdateTasksGet(w, id)
    \/ UpdateTasksPut
    \/ \E id \in TaskIds, healthy \in BOOLEAN, dispatch \in DispatchKinds :
            HealthCheckTask(id, healthy, dispatch)
    \/ \E w \in Workers : RunTask(w)
    \/ \E w \in Workers, runOk \in BOOLEAN : StartTask(w, runOk)
    \/ \E w \in Workers, stopOk \in BOOLEAN : StopTask(w, stopOk)
    \/ \E w \in Workers, id \in TaskIds : WorkerUpdateList(w, id)
    \/ \E w \in Workers, inspectOk \in BOOLEAN : WorkerUpdateTask(w, inspectOk)
    \/ \E w \in Workers, id \in TaskIds : ContainerExit(w, id)

Spec == Init /\ [][Next]_vars

(* ------------------- the state machine, pair by pair ------------------- *)
\* the idx-th pair of states (0-based), in the order of the iota constants
PairAt(idx) == <<StateOrder[(idx \div 6) + 1], StateOrder[(idx % 6) + 1]>>

InitTransitions ==
    /\ SystemInit
    /\ sch = SchIdle
    /\ \E s \in State, d \in State :
         tr = [TrIdle EXCEPT !.pc = "ready", !.src = s, !.dst = d]

\* apply ValidStateTransition to the pair drawn
CheckTransition ==
    /\ tr.pc = "ready"
    /\ tr' = [tr EXCEPT !.pc = "checked",
                        !.verdict = IF ValidStateTransition(tr.src, tr.dst)
                                    THEN "legal" ELSE "illegal"]
    /\ UNCHANGED <<mgrVars, wkrVars, faults, sch>>

\* apply ValidStateTransition to the next of the 36 pairs and count the answers
ScanTransitions ==
    /\ tr.pc # "off"
    /\ tr.idx < Cardinality(State) * Cardinality(State)
    /\ LET p == PairAt(tr.idx)
       IN tr' = IF ValidStateTransition(p[1], p[2])
                THEN [tr EXCEPT !.idx = @ + 1, !.legal = @ + 1]
                ELSE [tr EXCEPT !.idx = @ + 1, !.illegal = @ + 1]
    /\ UNCHANGED <<mgrVars, wkrVars, faults, sch>>

NextTransitions == CheckTransition \/ ScanTransitions

SpecTransitions == InitTransitions /\ [][NextTransitions]_vars

(* ------------------------ the scheduler, step by step ------------------ *)
SchedulerKinds == {"round-robin", "greedy", "epvm"}
AllNodes == [i \in 1..NumNodes |-> i]

\* what a node's statistics come to: the stats call fails, or the node is idle,
\* or it is loaded (usage in thousandths; cost is the E-PVM marginal cost)
StatsChoices ==
    {[ok |-> FALSE, usage |-> 0, cost |-> 0],
     [ok |-> TRUE, usage |-> 0, cost |-> 1],
     [ok |-> TRUE, usage |-> 500, cost |-> 2]}

InitScheduler ==
    /\ SystemInit
    /\ tr = TrIdle
    /\ \E kind \in SchedulerKinds, disk \in 0..MaxDisk, last \in 0..(NumNodes - 1),
          nodeInfo \in [Nodes -> [Disk : 0..MaxDisk, DiskAllocated : {0, 1}]] :
         sch = [SchIdle EXCEPT !.pc = "new", !.kind = kind, !.disk = disk,
                               !.last = last, !.nodeInfo = nodeInfo]

\* SelectWorker, lines 93-98
SchedSelectCandidates ==
    /\ sch.pc = "new"
    /\ LET candidates == SelectCandidateNodes(sch.kind, sch.disk, AllNodes, sch.nodeInfo)
       IN sch' = IF candidates = << >>
                 THEN [sch EXCEPT !.pc = "error", !.err = "NoCandidates"]
                 ELSE [sch EXCEPT !.pc = "candidates", !.candidates = candidates]
    /\ UNCHANGED <<mgrVars, wkrVars, faults, tr>>

\* SelectWorker, lines 100-103; round-robin reads no statistics
SchedScore(stats) ==
    /\ sch.pc = "candidates"
    /\ sch.kind = "round-robin" => \A n \in Nodes : stats[n] = [ok |-> TRUE, usage |-> 0, cost |-> 1]
    /\ LET scores == Score(sch.kind, sch.last, sch.candidates, stats)
           cursor == IF sch.kind = "round-robin"
                     THEN RoundRobinCursor(sch.last, sch.candidates) ELSE sch.last
       IN sch' = IF IsNilMap(scores)
                 THEN [sch EXCEPT !.pc = "error", !.err = "NoScores", !.stats = stats,
                                  !.last = cursor]
                 ELSE [sch EXCEPT !.pc = "scored", !.scores = scores, !.stats = stats,
                                  !.last = cursor]
    /\ UNCHANGED <<mgrVars, wkrVars, faults, tr>>

\* SelectWorker, line 104
SchedPick ==
    /\ sch.pc = "scored"
    /\ sch' = [sch EXCEPT !.pc = "picked",
                          !.picked = Pick(sch.kind, sch.scores, sch.candidates)]
    /\ UNCHANGED <<mgrVars, wkrVars, faults, tr>>

NextScheduler ==
    \/ SchedSelectCandidates
    \/ \E stats \in [Nodes -> StatsChoices] : SchedScore(stats)
    \/ SchedPick

SpecScheduler == InitScheduler /\ [][NextScheduler]_vars

(* ------------------------- the loops, run fairly ----------------------- *)
\* the system in which the client submits events for one task only
NextLive ==
    \/ \E eState \in {"Running", "Completed"}, tState \in {"Pending", "Scheduled"} :
            AddTask(eState, 1, tState)
    \/ \E putErr \in BOOLEAN, dispatch \in DispatchKinds : SendWork(putErr, dispatch)
    \/ \E w \in Workers, id \in TaskIds : UpdateTasksGet(w, id)
    \/ UpdateTasksPut
    \/ \E id \in TaskIds, healthy \in BOOLEAN, dispatch \in DispatchKinds :
            HealthCheckTask(id, healthy, dispatch)
    \/ \E w \in Workers : RunTask(w)
    \/ \E w \in Workers, runOk \in BOOLEAN : StartTask(w, runOk)
    \/ \E w \in Workers, stopOk \in BOOLEAN : StopTask(w, stopOk)
    \/ \E w \in Workers, id \in TaskIds : WorkerUpdateList(w, id)
    \/ \E w \in Workers, inspectOk \in BOOLEAN : WorkerUpdateTask(w, inspectOk)
    \/ \E w \in Workers, id \in TaskIds : ContainerExit(w, id)

\* every loop keeps running: ProcessTasks, UpdateTasks and DoHealthChecks of
\* the Manager, RunTasks and UpdateTasks of the Workers; a pass that is begun
\* again and again takes up a task it can act on (strong fairness for the
\* first step of a pass over the tasks)
Fairness ==
    /\ WF_vars(\E putErr \in BOOLEAN, dispatch \in DispatchKinds : SendWork(putErr, dispatch))
    /\ SF_vars(\E w \in Workers, id \in TaskIds : UpdateTasksGet(w, id))
    /\ WF_vars(UpdateTasksPut)
    /\ WF_vars(\E id \in TaskIds, healthy \in BOOLEAN, dispatch \in DispatchKinds :
                  HealthCheckTask(id, healthy, dispatch))
    /\ WF_vars(\E w \in Workers : RunTask(w))
    /\ WF_vars(\E w \in Workers, runOk \in BOOLEAN : StartTask(w, runOk))
    /\ WF_vars(\E w \in Workers, stopOk \in BOOLEAN : StopTask(w, stopOk))
    /\ WF_vars(\E w \in Workers, inspectOk \in BOOLEAN : WorkerUpdateTask(w, inspectOk))
    /\ SF_vars(\E w \in Workers, id \in TaskIds : WorkerUpdateList(w, id))

SpecLive == Init /\ [][NextLive]_vars /\ Fairness

(* ------------------ round-robin placements in a row -------------------- *)
\* a Manager of n workers with the round-robin scheduler, nothing placed yet
InitRoundRobin ==
    /\ Pending = << >>
    /\ TaskDb = EmptyStore
    /\ EventDb = {}
    /\ TaskWorkerMap = [id \in 1..MaxPlacements |-> 0]
    /\ LastWorker = 0
    /\ TaskCount = [w \in Workers |-> 0]
    /\ mgrCrashed = FALSE
    /\ nextEvent = 0
    /\ upd = UpdIdle
    /\ lastSend = NoSend
    /\ Queue = [w \in Workers |-> << >>]
    /\ Db = [w \in Workers |-> EmptyStore]
    /\ wrun = [w \in Workers |-> RunIdle]
    /\ wupd = [w \in Workers |-> WUpdIdle]
    /\ container = [w \in Workers |-> [id \in TaskIds |-> "none"]]
    /\ wCrashed = [w \in Workers |-> FALSE]
    /\ faults = 0
    /\ tr = TrIdle
    /\ \E n \in 1..NumNodes :
         /\ WorkerTaskMap = [w \in 1..n |-> << >>]
         /\ sch = [SchIdle EXCEPT !.pc = "rr", !.candidates = [i \in 1..n |-> i]]

\* SelectWorker, line 99, for the next new task: RoundRobin.Score
RoundRobinScoreStep ==
    /\ sch.pc = "rr"
    /\ nextEvent < MaxPlacements
    /\ nextEvent' = nextEvent + 1
    /\ LastWorker' = RoundRobinCursor(LastWorker, sch.candidates)
    /\ sch' = [sch EXCEPT !.pc = "rrScored",
                          !.scores = Score(sch.kind, LastWorker, sch.candidates, sch.stats)]
    /\ UNCHANGED <<Pending, TaskDb, EventDb, WorkerTaskMap, TaskWorkerMap, TaskCount,
                   mgrCrashed, upd, lastSend, wkrVars, faults, tr>>

\* SelectWorker, line 104, and SendWork, lines 256-257: RoundRobin.Pick and
\* the entry of the placement in the two maps
RoundRobinPickStep ==
    /\ sch.pc = "rrScored"
    /\ LET w == Pick(sch.kind, sch.scores, sch.candidates)
       IN /\ sch' = [sch EXCEPT !.pc = "rr", !.picked = w]
          /\ WorkerTaskMap' = BindWorkerTask(WorkerTaskMap, w, nextEvent)
          /\ TaskWorkerMap' = BindTaskWorker(TaskWorkerMap, w, nextEvent)
    /\ UNCHANGED <<Pending, TaskDb, EventDb, LastWorker, TaskCount, mgrCrashed,
                   nextEvent, upd, lastSend, wkrVars, faults, tr>>

NextRoundRobin == RoundRobinScoreStep \/ RoundRobinPickStep

SpecRoundRobin == InitRoundRobin /\ [][NextRoundRobin]_vars

(* ------------------------- intake specification ------------------------ *)
\* the Manager's intake under each scheduler: clients submit events whose
\* tasks ask for disk, ProcessTasks and UpdateTasks run, the workers run
\* their intake queues
InitIntake ==
    /\ SystemInit
    /\ tr = TrIdle
    /\ \E kind \in SchedulerKinds : sch = [SchIdle EXCEPT !.kind = kind]

NextIntake ==
    \/ \E eState \in {"Running", "Completed"}, id \in TaskIds,
          tState \in {"Pending", "Scheduled"}, disk \in 0..MaxDisk :
            AddTaskDisk(eState, id, tState, disk)
    \/ \E putErr \in BOOLEAN, dispatch \in DispatchKinds : SendWork(putErr, dispatch)
    \/ \E w \in Workers, id \in TaskIds : UpdateTasksGet(w, id)
    \/ UpdateTasksPut
    \/ \E w \in Workers : RunTask(w)
    \/ \E w \in Workers, runOk \in BOOLEAN : StartTask(w, runOk)
    \/ \E w \in Workers, stopOk \in BOOLEAN : StopTask(w, stopOk)

SpecIntake == InitIntake /\ [][NextIntake]_vars

(* ------------------------- restart specification ----------------------- *)
\* the system of one task in which a worker's intake queue has room for one
\* more restart than MaxQueue
NextRestart ==
    \/ \E eState \in {"Running", "Completed"}, tState \in {"Pending", "Scheduled"} :
            AddTask(eState, 1, tState)
    \/ \E putErr \in BOOLEAN, dispatch \in DispatchKinds : SendWork(putErr, dispatch)
    \/ \E w \in Workers, id \in TaskIds : UpdateTasksGet(w, id)
    \/ UpdateTasksPut
    \/ \E id \in TaskIds, healthy \in BOOLEAN, dispatch \in DispatchKinds :
            HealthCheckTaskCap(id, healthy, dispatch, MaxQueue + 1)
    \/ \E w \in Workers : RunTask(w)
    \/ \E w \in Workers, runOk \in BOOLEAN : StartTask(w, runOk)
    \/ \E w \in Workers, stopOk \in BOOLEAN : StopTask(w, stopOk)
    \/ \E w \in Workers, id \in TaskIds : WorkerUpdateList(w, id)
    \/ \E w \in Workers, inspectOk \in BOOLEAN : WorkerUpdateTask(w, inspectOk)
    \/ \E w \in Workers, id \in TaskIds : ContainerExit(w, id)

SpecRestart == Init /\ [][NextRestart]_vars

(* ================================ claims =============================== *)

\* C1: the Worker never persists an illegal state change: a dequeued task
\* whose state is no legal transition from the state stored for its ID leaves
\* the stored record as it was, so the states stored for an ID form a walk over
\* the legal-transition graph.
C1_WorkerWalk ==
    [][\A w \in Workers, id \in TaskIds :
         /\ (StoreHas(Db[w], id) /\ Db'[w][id].State # Db[w][id].State)
               => ValidStateTransition(Db[w][id].State, Db'[w][id].State)
         /\ (/\ Queue[w] # << >> /\ Queue'[w] = Tail(Queue[w])
             /\ Head(Queue[w]).ID = id /\ StoreHas(Db[w], id)
             /\ ~ValidStateTransition(Db[w][id].State, Head(Queue[w]).State))
               => Db'[w][id] = Db[w][id]]_vars

\* C2: in the Manager's TaskDb the states persisted for an ID form a walk over
\* the legal-transition graph; in particular a record that is Failed (or
\* Running) is never rewritten to Scheduled.
C2_ManagerWalk ==
    [][\A id \in TaskIds :
         (StoreHas(TaskDb, id) /\ TaskDb'[id].State # TaskDb[id].State)
            => /\ ValidStateTransition(TaskDb[id].State, TaskDb'[id].State)
               /\ ~(TaskDb[id].State \in {"Failed", "Running"}
                    /\ TaskDb'[id].State = "Scheduled")]_vars

\* the pairs the claim lists
LegalPairs ==
    {<<"Pending", "Scheduled">>,
     <<"Scheduled", "Scheduled">>, <<"Scheduled", "Running">>, <<"Scheduled", "Failed">>,
     <<"Running", "Running">>, <<"Running", "Completed">>, <<"Running", "Failed">>}

\* what the claim says of one answer of ValidStateTransition
VerdictAsListed ==
    /\ tr.pc = "checked" =>
          /\ (tr.verdict = "legal") <=> (<<tr.src, tr.dst>> \in LegalPairs)
          /\ tr.src \in {"Completed", "Failed", "Stopped"} => tr.verdict = "illegal"
          /\ tr.dst \in {"Pending", "Stopped"} => tr.verdict = "illegal"

\* C3 (as stated): ValidStateTransition is true for exactly the seven listed
\* pairs and false for the other 27 of the 36 pairs.
C3_TableOriginal ==
    /\ VerdictAsListed
    /\ tr.idx = 36 => (tr.legal = 7 /\ tr.illegal = 27)

\* C3 (amended): ValidStateTransition is true for exactly the seven listed
\* pairs and false for the other 29 of the 36 pairs; Completed, Failed and
\* Stopped have no outgoing transition and nothing leads to Pending or Stopped.
C3_Table ==
    /\ VerdictAsListed
    /\ tr.idx = 36 => (tr.legal = 7 /\ tr.illegal = 29)

C3_Witness ==
    /\ tr.pc = "checked" /\ tr.src = "Running" /\ tr.dst = "Failed"
    /\ tr.verdict = "legal" /\ tr.idx = 36

\* C4: for every task in TaskDb, RestartCount never decreases and never
\* exceeds 3, under any interleaving of SendWork, UpdateTasks and doHealthChecks.
C4_RestartCount ==
    [][\A id \in TaskIds :
         /\ TaskDb'[id].RestartCount <= RestartCap
         /\ StoreHas(TaskDb, id) => TaskDb'[id].RestartCount >= TaskDb[id].RestartCount]_vars

\* C5: TaskWorkerMap[id] = w exactly when id is in WorkerTaskMap[w], in every
\* reachable Manager state.
C5_MapsAgree ==
    \A id \in TaskIds, w \in Workers :
       (TaskWorkerMap[id] = w) <=> (id \in Range(WorkerTaskMap[w]))

C5_Witness ==
    /\ \A id \in TaskIds : TaskWorkerMap[id] # 0
    /\ \E id1 \in TaskIds, id2 \in TaskIds : TaskWorkerMap[id1] # TaskWorkerMap[id2]

\* C6: after a SendWork whose POST failed at transport level the task is on
\* Pending again, TaskWorkerMap has no entry for it and no WorkerTaskMap list
\* holds its ID (so that a later SendWork places it again).
C6_TransportFailure ==
    (lastSend.kind = "TransportError" /\ ~mgrCrashed) =>
       /\ \E i \in 1..Len(Pending) : Pending[i].Task.ID = lastSend.id
       /\ TaskWorkerMap[lastSend.id] = 0
       /\ \A w \in Workers : lastSend.id \notin Range(WorkerTaskMap[w])

\* C7: no Manager loop is terminated by a runtime failure: whatever was
\* re-enqueued, ProcessTasks never reaches a crashed state.
C7_NoCrash == ~mgrCrashed

\* C8: SendWork rejects an event with State Completed for a task that was never
\* placed (embedded task Pending): no worker is selected, nothing is dispatched
\* and the task stays absent from TaskDb, TaskWorkerMap and WorkerTaskMap.
C8_UnplacedStopRejected ==
    [][(/\ Pending # << >>
        /\ EventDb' # EventDb
        /\ Head(Pending).kind = "TaskEvent"
        /\ Head(Pending).State = "Completed"
        /\ Head(Pending).Task.State = "Pending"
        /\ TaskWorkerMap[Head(Pending).Task.ID] = 0)
       => /\ TaskDb' = TaskDb
          /\ TaskWorkerMap' = TaskWorkerMap
          /\ WorkerTaskMap' = WorkerTaskMap
          /\ LastWorker' = LastWorker
          /\ Queue' = Queue]_vars

\* the position of a node in the candidates
IndexOf(candidates, n) == CHOOSE i \in 1..Len(candidates) : candidates[i] = n

\* C9: Pick returns an element of candidates that has an entry in scores and
\* whose score is the minimum of scores over candidates, the lowest index
\* among ties.
C9_PickMinimum ==
    sch.pc = "picked" =>
       LET scored == {c \in Range(sch.candidates) : c \in DOMAIN sch.scores}
       IN /\ sch.picked \in Range(sch.candidates)
          /\ sch.picked \in DOMAIN sch.scores
          /\ \A c \in scored : sch.scores[sch.picked] <= sch.scores[c]
          /\ \A c \in scored :
                sch.scores[c] = sch.scores[sch.picked]
                   => IndexOf(sch.candidates, sch.picked) <= IndexOf(sch.candidates, c)

\* C10: under Greedy and E-PVM a candidate whose stats call fails during Score
\* is absent from the score map and is never the node Pick returns.
C10_FailedNodeNotPicked ==
    (sch.kind \in {"greedy", "epvm"} /\ sch.pc \in {"scored", "picked"}) =>
       /\ \A n \in Range(sch.candidates) : ~sch.stats[n].ok => n \notin DOMAIN sch.scores
       /\ sch.pc = "picked" => sch.stats[sch.picked].ok

\* C11: SelectWorker returns an error and no node when SelectCandidateNodes
\* yields no candidates (NoCandidates) or Score yields no scores (NoScores, as
\* when every candidate's stats call failed); it returns a node only when
\* candidates and scores are both non-empty.
C11_SelectWorkerErrors ==
    /\ sch.pc = "error" => (sch.picked = 0 /\ sch.err \in {"NoCandidates", "NoScores"})
    /\ sch.pc = "picked" =>
          /\ sch.candidates # << >>
          /\ DOMAIN sch.scores # {}
          /\ sch.picked \in Range(sch.candidates)

\* C12: with the round-robin scheduler and n >= 1 workers, each Score call
\* advances the cursor to (LastWorker + 1) mod n and the following Pick returns
\* the node at that index; the cursor stays in 0..n-1, and after any k*n
\* placements in a row every worker's WorkerTaskMap list has gained exactly k IDs.
C12_RoundRobin ==
    sch.pc \in {"rr", "rrScored"} =>
       LET n == Len(sch.candidates)
           atCursor == sch.candidates[LastWorker + 1]
       IN /\ LastWorker \in 0..(n - 1)
          /\ LastWorker = nextEvent % n
          /\ sch.pc = "rrScored" =>
                \A c \in Range(sch.candidates) :
                   sch.scores[c] = IF c = atCursor THEN RoundRobinLow ELSE RoundRobinHigh
          /\ (sch.pc = "rr" /\ nextEvent > 0) => sch.picked = atCursor
          /\ sch.pc = "rr" =>
                \A i \in 1..n :
                   /\ Len(WorkerTaskMap[sch.candidates[i]])
                         = Cardinality({j \in 1..nextEvent : j % n = i - 1})
                   /\ nextEvent % n = 0
                         => Len(WorkerTaskMap[sch.candidates[i]]) = nextEvent \div n

C12_Witness ==
    /\ sch.pc = "rr" /\ Len(sch.candidates) = 3 /\ nextEvent = 6
    /\ \A w \in 1..3 : Len(WorkerTaskMap[w]) = 2

\* the happy path's submission: the one event {State = Running, Task = {ID = 1}}
\* with the task's State at its default, Pending
HappySubmitted ==
    /\ nextEvent = 1
    /\ Pending = <<TaskEvent(1, "Running", Task(1, "Pending"))>>

\* C13: after that submission, with no failure injected and the loops scheduled
\* fairly, eventually the chosen Worker's store holds the task as Running,
\* TaskDb holds it as Running and the Worker's WorkerTaskMap list is [T1].
C13_HappyPath ==
    HappySubmitted ~>
       \/ faults > 0
       \/ nextEvent > 1
       \/ \E w \in Workers :
             /\ Db[w][1].State = "Running"
             /\ TaskDb[1].State = "Running"
             /\ WorkerTaskMap[w] = <<1>>

\* C14: a doHealthChecks pass that restarts a Running task (RestartCount < 3,
\* probe failed) adds exactly 1 to its RestartCount and posts one fresh event
\* to the worker TaskWorkerMap records for it and to no other: no Scheduler
\* call, no Pending enqueue, TaskWorkerMap and WorkerTaskMap unchanged; at
\* RestartCount 3 no pass restarts the task.
C14_HealthRestart ==
    [][\A id \in TaskIds :
         (/\ StoreHas(TaskDb, id)
          /\ TaskDb[id].State = "Running"
          /\ TaskDb'[id].RestartCount > TaskDb[id].RestartCount)
         => /\ TaskDb[id].RestartCount < RestartCap
            /\ TaskDb'[id].RestartCount = TaskDb[id].RestartCount + 1
            /\ Pending' = Pending
            /\ LastWorker' = LastWorker
            /\ TaskWorkerMap' = TaskWorkerMap
            /\ WorkerTaskMap' = WorkerTaskMap
            /\ \A w \in Workers :
                  IF w = TaskWorkerMap[id]
                  THEN Queue'[w] = Queue[w] \/ (Len(Queue'[w]) = Len(Queue[w]) + 1)
                  ELSE Queue'[w] = Queue[w]]_vars

\* the task's container on worker w has exited and nothing else has stopped
\* the task or the loops that handle it
ExitedOn(w, id) ==
    /\ container[w][id] = "exited"
    /\ ~mgrCrashed /\ ~wCrashed[w]
    /\ Db[w][id].State # "Completed"

\* the loops have stopped, or the task was stopped on the client's request
Interrupted(id) ==
    \/ mgrCrashed
    \/ \E w \in Workers : wCrashed[w] \/ Db[w][id].State = "Completed"

\* a restart has put a new container in the place of the exited one
Replaced(id) == \A w \in Workers : container[w][id] # "exited"

StopQueued(w) ==
    /\ Db[w][1].State = "Running"
    /\ \E i \in 1..Len(Queue[w]) : Queue[w][i].ID = 1 /\ Queue[w][i].State = "Completed"

\* C16: once a stop intent for a task Running on a Worker is on that Worker's
\* intake queue then, with RunTasks scheduled fairly, the Worker's stored state
\* of the task eventually becomes Completed and stays Completed, and TaskDb
\* eventually shows Completed.
C16_StopLiveness ==
    \A w \in Workers :
       /\ [](StopQueued(w) => <>[](Db[w][1].State = "Completed"))
       /\ StopQueued(w) ~> (TaskDb[1].State = "Completed")

\* C17: a second full UpdateTasks pass, with no change on any worker and no
\* other Manager loop acting in between, leaves TaskDb as the first pass left
\* it; the steps of a pass change nothing but TaskDb: TaskWorkerMap,
\* WorkerTaskMap, Pending and the node records stay as they were.
C17_Idempotent ==
    [][/\ LET once == UpdatePass(TaskDb', Db', wCrashed', NumWorkers)
          IN UpdatePass(once, Db', wCrashed', NumWorkers) = once
       /\ (upd.pc = "put" /\ upd'.pc = "idle") =>
             /\ UNCHANGED <<Pending, TaskWorkerMap, WorkerTaskMap, TaskCount, LastWorker>>
             /\ \A w \in Workers :
                   LET id == upd.taskPersisted.ID
                   IN (/\ TaskWorkerMap[id] = w /\ ~wCrashed[w] /\ StoreHas(Db[w], id)
                       /\ upd.taskPersisted = MergeWorkerTask(TaskDb[id], Db[w][id]))
                      => TaskDb'[id] = UpdatePass(TaskDb, Db, wCrashed, NumWorkers)[id]]_vars

C17_Witness ==
    /\ upd.pc = "idle"
    /\ \E id \in TaskIds : TaskDb[id].State = "Running" /\ TaskDb[id].HostPorts
    /\ UpdatePass(TaskDb, Db, wCrashed, NumWorkers) = TaskDb

\* what C18 says of one stored task
ContainerIDAsClaimed(t) ==
    /\ t.State \in {"Pending", "Scheduled"} => t.ContainerID = 0
    /\ t.State \in {"Running", "Completed", "Stopped"} => t.ContainerID # 0

\* C18: in the Worker's store and in TaskDb a task's ContainerID is non-empty
\* exactly when its state is Running, Completed, Stopped, or Failed after a
\* successful start: no stored task that is Pending or Scheduled has a
\* ContainerID and no Completed task lacks one.
C18_ContainerID ==
    \A id \in TaskIds :
       /\ StoreHas(TaskDb, id) => ContainerIDAsClaimed(TaskDb[id])
       /\ \A w \in Workers : StoreHas(Db[w], id) => ContainerIDAsClaimed(Db[w][id])

\* C19: when updateTasks inspects a Running task and the inspect call fails
\* (an error and no container description), the pass goes on: the task's record
\* is not rewritten, its state stays Running and the Worker does not crash.
C19_InspectFailure ==
    [][\A w \in Workers :
         WorkerUpdateTask(w, FALSE) =>
            /\ Db'[w] = Db[w]
            /\ Db'[w][wupd[w].t.ID].State = "Running"
            /\ ~wCrashed'[w]]_vars

Dequeued == Len(Pending) > 0 /\ Len(Pending') <= Len(Pending) /\ Pending' # Pending

\* no node has the disk the task of event te asks for, under a scheduler that
\* filters by disk
NoCandidates(te) ==
    /\ SchedulerKind # "round-robin"
    /\ \A n \in Workers : te.Task.Disk > NewNodeInfo[n].Disk - NewNodeInfo[n].DiskAllocated

\* the tick ended with the event dropped and nothing else done
DroppedOnly ==
    /\ Pending' = Tail(Pending)
    /\ UNCHANGED <<TaskDb, TaskWorkerMap, WorkerTaskMap, TaskCount, Queue>>

\* C21: an event SendWork dequeues is recorded in EventDb under its ID and
\* nothing else is recorded; when the record fails, or when the task is not
\* placed yet and no worker can be selected for it, the tick drops the event
\* (it is not enqueued again) and leaves TaskDb, TaskWorkerMap, WorkerTaskMap
\* and the node TaskCounts as they were, and no worker receives anything.
C21_DroppedOnFailure ==
    [][Dequeued /\ Head(Pending).kind = "TaskEvent" =>
         LET te == Head(Pending)
         IN /\ EventDb' \in {EventDb, EventDb \cup {te.ID}}
            /\ te.ID \notin EventDb' => DroppedOnly
            /\ TaskWorkerMap[te.Task.ID] = 0 /\ NoCandidates(te) => DroppedOnly]_vars

\* a tick has ended on a task for which no worker could be selected: its event
\* is recorded and the task is in no map
C21_Witness ==
    /\ lastSend.kind = "NoWorker"
    /\ EventDb # {}
    /\ TaskWorkerMap[lastSend.id] = 0
    /\ ~StoreHas(TaskDb, lastSend.id)

\* the IDs of the events waiting in Pending; clients' events are numbered in
\* the order AddTask enqueued them
PendingEventIDs == {Pending[i].ID : i \in {j \in 1..Len(Pending) : Pending[j].kind = "TaskEvent"}}

\* seq is what is left of Pending after this step, followed by at most one
\* new element
KeptInOrder(seq) ==
    /\ Len(Pending') \in {Len(seq), Len(seq) + 1}
    /\ SubSeq(Pending', 1, Len(seq)) = seq

StartTaskReturns(w) == wrun[w].pc = "start" /\ wrun'[w].pc = "idle"

\* C23: when StartTask returns, the worker's store holds the task under its ID
\* either as Running with the container ID the driver returned (the driver
\* ran a container) or as Failed (the driver's Run failed, no container was
\* started), and never as Scheduled.
C23_StartTaskOutcome ==
    [][\A w \in Workers : StartTaskReturns(w) =>
         LET id == wrun[w].t.ID
             ran == container'[w][id] = "running" /\ faults' = faults
         IN /\ StoreHas(Db'[w], id)
            /\ Db'[w][id].ID = id
            /\ Db'[w][id].State \in {"Running", "Failed"}
            /\ Db'[w][id].State = "Running" <=> ran
            /\ ran => Db'[w][id].ContainerID = 1
            /\ Db'[w][id].State = "Failed" <=> faults' = faults + 1]_vars

\* both outcomes have happened: one worker holds a task it started, with the
\* driver's container ID, and the other a task whose start failed
C23_Witness ==
    \E w1, w2 \in Workers, id1, id2 \in TaskIds :
        /\ StoreHas(Db[w1], id1) /\ Db[w1][id1].State = "Running"
        /\ Db[w1][id1].ContainerID = 1 /\ container[w1][id1] = "running"
        /\ StoreHas(Db[w2], id2) /\ Db[w2][id2].State = "Failed"
        /\ Db[w2][id2].StartTime /\ container[w2][id2] = "none"
        /\ wrun[w1].pc = "idle" /\ wrun[w2].pc = "idle"

\* this step is the return of StopTask on worker w
StopTaskReturns(w) == wrun[w].pc = "stop" /\ wrun'[w].pc = "idle"

\* C24: when StopTask returns, the worker's store holds the task under its ID
\* as Completed with FinishTime set, whether the driver's Stop removed the
\* container or failed; a failed Stop leaves the record neither Running nor
\* Failed.
C24_StopTaskOutcome ==
    [][\A w \in Workers : StopTaskReturns(w) =>
         LET id == wrun[w].t.ID
         IN /\ StoreHas(Db'[w], id)
            /\ Db'[w][id].ID = id
            /\ Db'[w][id].State = "Completed"
            /\ Db'[w][id].FinishTime]_vars

\* a StopTask whose driver call failed has returned: the container is still
\* running and the record is Completed with FinishTime set
C24_Witness ==
    \E w \in Workers, id \in TaskIds :
        /\ StoreHas(Db[w], id)
        /\ Db[w][id].State = "Completed" /\ Db[w][id].FinishTime
        /\ container[w][id] = "running"
        /\ wrun[w].pc = "idle"

\* the nodes SelectCandidateNodes is to return for the task and nodes of the
\* scheduler specification
Qualifying ==
    IF sch.kind = "round-robin" THEN Nodes
    ELSE {n \in Nodes : sch.disk <= sch.nodeInfo[n].Disk - sch.nodeInfo[n].DiskAllocated}

\* C25: what SelectCandidateNodes returned holds exactly the nodes with
\* task.Disk <= Disk - DiskAllocated under greedy and E-PVM, each once and in
\* the order of the input list, and is the whole input list under
\* round-robin; it is empty exactly when no node qualifies.
C25_Candidates ==
    /\ sch.pc \in {"candidates", "scored", "picked"} =>
          /\ Range(sch.candidates) = Qualifying
          /\ Len(sch.candidates) = Cardinality(Qualifying)
          /\ \A i, j \in 1..Len(sch.candidates) :
                i < j => IndexOf(AllNodes, sch.candidates[i]) < IndexOf(AllNodes, sch.candidates[j])
          /\ sch.kind = "round-robin" => sch.candidates = AllNodes
    /\ sch.pc = "error" /\ sch.err = "NoCandidates" => Qualifying = {}
    /\ sch.pc \notin {"off", "new"} /\ Qualifying = {} =>
          sch.pc = "error" /\ sch.err = "NoCandidates"

\* greedy has returned the first and the last node of three, the middle one
\* lacking the disk the task asks for
C25_Witness ==
    /\ sch.pc = "candidates"
    /\ sch.kind = "greedy"
    /\ sch.disk = 1
    /\ sch.candidates = <<1, 3>>
    /\ sch.nodeInfo[2].Disk - sch.nodeInfo[2].DiskAllocated < 1

\* the fields of a task that an UpdateTasks pass does not copy from the worker
KeptFields(t) == [ID |-> t.ID, RestartCount |-> t.RestartCount, Disk |-> t.Disk]

\* C26: the write that ends UpdateTasks' handling of a worker's task changes,
\* in the record TaskDb already holds for that ID, at most State, StartTime,
\* FinishTime, ContainerID and HostPorts: no record is added, RestartCount
\* and every other field keep their values, and TaskWorkerMap, WorkerTaskMap
\* and Pending are unchanged.
C26_UpdateFrame ==
    [][upd.pc = "put" /\ upd'.pc = "idle" =>
         /\ \A id \in TaskIds :
               /\ StoreHas(TaskDb', id) <=> StoreHas(TaskDb, id)
               /\ StoreHas(TaskDb, id) =>
                     KeptFields(StoreGet(TaskDb', id)) = KeptFields(StoreGet(TaskDb, id))
         /\ UNCHANGED <<TaskWorkerMap, WorkerTaskMap, Pending>>]_vars

\* this step is a SendWork call whose POST of a new placement to worker w was
\* answered 201: the worker's intake queue took the task and a binding was made
PlacedAndCreated(w) ==
    /\ Len(Queue'[w]) = Len(Queue[w]) + 1
    /\ Len(WorkerTaskMap'[w]) = Len(WorkerTaskMap[w]) + 1

StaleUpdateWrite(w) ==
    /\ wupd[w].pc = "inspect" /\ wupd'[w].pc = "idle"
    /\ wupd[w].t.State = "Running"
    /\ faults' = 0

\* StopTask has returned on worker w, leaving task id Completed in the store
StoppedOn(w, id) == wrun[w].pc = "idle" /\ Db[w][id].State = "Completed"

\* C28: once StopTask has returned with a task persisted as Completed on a
\* worker, the write of an updateTasks pass that read the task while it was
\* Running leaves the record Completed.
C28_CompletedTerminal ==
    [][\A w \in Workers :
         StaleUpdateWrite(w) /\ StoppedOn(w, wupd[w].t.ID) =>
             Db'[w][wupd[w].t.ID].State = "Completed"]_vars

\* the places task id takes in the workers' lists of a WorkerTaskMap
Placements(workerTaskMap, id) ==
    {<<w, i>> \in Workers \X (1..MaxEvents) :
        i <= Len(workerTaskMap[w]) /\ workerTaskMap[w][i] = id}

\* C29: in every step a TaskWorkerMap entry that is set keeps its worker, the
\* workers' lists in WorkerTaskMap only grow at the end, and afterwards every
\* task ID stands at most once in all the lists of WorkerTaskMap together:
\* a task is placed at most once and its placement is never changed or
\* removed.
C29_PlacementPermanent ==
    [][\A id \in TaskIds :
         /\ TaskWorkerMap[id] # 0 => TaskWorkerMap'[id] = TaskWorkerMap[id]
         /\ \A w \in Workers :
               /\ Len(WorkerTaskMap'[w]) >= Len(WorkerTaskMap[w])
               /\ SubSeq(WorkerTaskMap'[w], 1, Len(WorkerTaskMap[w])) = WorkerTaskMap[w]
               /\ Len(WorkerTaskMap'[w]) <= MaxEvents
         /\ Cardinality(Placements(WorkerTaskMap', id)) <= 1]_vars

\* a placed task has been restarted once and then stopped: it is Completed in
\* TaskDb and still bound to its worker, once
C29_Witness ==
    \E id \in TaskIds :
        /\ TaskWorkerMap[id] # 0
        /\ StoreGet(TaskDb, id).State = "Completed"
        /\ StoreGet(TaskDb, id).RestartCount = 1
        /\ Placements(WorkerTaskMap, id) = {<<TaskWorkerMap[id], 1>>}

\* the start entries for task id waiting on worker w's intake queue
StartEntries(w, id) ==
    {i \in 1..Len(Queue[w]) : Queue[w][i].ID = id /\ Queue[w][i].State = "Scheduled"}

\* C30: with one failure in all, a task does not both stand twice as a start
\* (Scheduled) entry on a worker's intake queue and have its RestartCount
\* raised twice in TaskDb: one failure leads to at most one restart on the
\* queue or at least to at most one increment.
C30_OneRestartQueued ==
    \A w \in Workers, id \in TaskIds :
        faults <= 1 /\ StoreHas(TaskDb, id) =>
            \/ Cardinality(StartEntries(w, id)) <= 1
            \/ StoreGet(TaskDb, id).RestartCount <= 1
====
